---- MODULE Spec2Model ----
(***************************************************************************)
(* Verification model of the clickup-alternative backend: the OTP model,   *)
(* the temporary-user model, the team-invitation model, the auth           *)
(* controller (register / verify-email / resend-otp), the invitation       *)
(* controller (send / accept / decline) and the workspace member routes    *)
(* over a document store.  Time is a discrete clock `now`; every handler   *)
(* runs to completion in one step, except under RaceSpec, where the        *)
(* awaits of send-invitation interleave.                                   *)
(***************************************************************************)
EXTENDS Integers, Sequences, FiniteSets, TLC

VARIABLES
    now,          \* the clock read by new Date() / Date.now()
    otps,         \* the OTP collection
    consumed,     \* history: (email, code, purpose) triples verifyOTP accepted since the last issue for the pair
    failedVerifies, \* history: per address, the failed verify-email requests made against its current active code
    tempUsers,    \* the TemporaryUser collection
    users,        \* the User collection
    workspaces,   \* the Workspace collection
    invitations,  \* the TeamInvitation collection
    nextId,       \* source of fresh ObjectIds and invitation tokens
    reqs,         \* the requests in flight, each with its position in the handler
    timeLogs,     \* the TimeLog collection
    mockDb,       \* the in-memory MockDatabase singleton
    last          \* the last operation with its arguments and outcome

vars == <<now, otps, consumed, failedVerifies, tempUsers, users, workspaces, invitations, nextId,
          reqs, timeLogs, mockDb, last>>

-----------------------------------------------------------------------------
(* Bounds of the model *)

MaxTime == 2          \* the clock runs 0..MaxTime
MaxIds == 2           \* at most this many ObjectIds are handed out
AttemptsCap == 6      \* the attempts counter is not driven past this value
OtpExpiryTicks == 1   \* OTP_EXPIRY_MINUTES, in clock ticks
InvitationExpiryTicks == 1  \* INVITATION_EXPIRY_HOURS, in clock ticks

(* Program constants *)

MaxAttempts == 5      \* verifyOTP: otpDoc.attempts >= 5
MinPasswordLen == 6   \* registerUser: password.length < 6

-----------------------------------------------------------------------------
(* Inputs *)

Emails == {"a@x.com", "A@x.com", "b@x.com"}
OtpEmails == {"a@x.com", "A@x.com"}   \* the addresses the OTP model is driven with
Codes == {"111111", "222222"}
Purposes == {"email_verification", "password_reset"}
Passwords == {"secret1", "abc"}

\* String.prototype.toLowerCase on the addresses above (schema option lowercase: true)
Lower(e) == IF e = "A@x.com" THEN "a@x.com" ELSE e

LowerEmails == {Lower(e) : e \in Emails}

\* password.length
PasswordLen(p) == IF p = "abc" THEN 3 ELSE 7

-----------------------------------------------------------------------------
(* OTP model *)

\* documents matching the filter { email, purpose }
OtpsFor(os, email, purpose) ==
    {o \in os : o.email = Lower(email) /\ o.purpose = purpose}

\* documents matching the filter { email, otp, purpose }
OtpsMatching(os, email, otp, purpose) ==
    {o \in OtpsFor(os, email, purpose) : o.otp = otp}

\* documents matching { email, otp, purpose, isUsed: false, expiresAt: { $gt: now } }
OtpsActive(os, email, otp, purpose, t) ==
    {o \in OtpsMatching(os, email, otp, purpose) : ~o.isUsed /\ o.expiresAt > t}

\* createOTP without the deleteMany of the earlier codes
OtpsAfterCreateNoDelete(os, email, purpose, code, t) ==
    os \cup {[email |-> Lower(email), otp |-> code, purpose |-> purpose,
              attempts |-> 0, isUsed |-> FALSE, expiresAt |-> t + OtpExpiryTicks]}

\* createOTP: deleteMany({ email, purpose }), then save the new document
OtpsAfterCreate(os, email, purpose, code, t) ==
    (os \ OtpsFor(os, email, purpose))
        \cup {[email |-> Lower(email), otp |-> code, purpose |-> purpose,
               attempts |-> 0, isUsed |-> FALSE, expiresAt |-> t + OtpExpiryTicks]}

\* verifyOTP telling an expired code before a used one
VerifyOTPResultExpiredFirst(os, email, otp, purpose, t) ==
    LET active == OtpsActive(os, email, otp, purpose, t)
        any == OtpsMatching(os, email, otp, purpose)
    IN  IF active = {}
        THEN IF any # {}
             THEN IF ~((CHOOSE o \in any : TRUE).expiresAt > t) THEN "Expired" ELSE "AlreadyUsed"
             ELSE "InvalidOTP"
        ELSE IF (CHOOSE o \in active : TRUE).attempts >= MaxAttempts
             THEN "TooManyAttempts"
             ELSE "ok"

\* verifyOTP: the value returned or the error thrown
VerifyOTPResult(os, email, otp, purpose, t) ==
    LET active == OtpsActive(os, email, otp, purpose, t)
        any == OtpsMatching(os, email, otp, purpose)
    IN  IF active = {}
        THEN IF any # {}
             THEN IF (CHOOSE o \in any : TRUE).isUsed THEN "AlreadyUsed" ELSE "Expired"
             ELSE "InvalidOTP"
        ELSE IF (CHOOSE o \in active : TRUE).attempts >= MaxAttempts
             THEN "TooManyAttempts"
             ELSE "ok"

\* verifyOTP that never sets isUsed
OtpsAfterVerifyNoMark(os, email, otp, purpose, t) == os

\* verifyOTP: the collection afterwards (otpDoc.isUsed = true; save)
OtpsAfterVerify(os, email, otp, purpose, t) ==
    IF VerifyOTPResult(os, email, otp, purpose, t) = "ok"
    THEN LET d == CHOOSE o \in OtpsActive(os, email, otp, purpose, t) : TRUE
         IN  (os \ {d}) \cup {[d EXCEPT !.isUsed = TRUE]}
    ELSE os

\* incrementAttempts: updateOne({ email, otp, purpose }, { $inc: { attempts: 1 } })
OtpsAfterIncrement(os, email, otp, purpose) ==
    LET any == OtpsMatching(os, email, otp, purpose)
    IN  IF any = {} THEN os
        ELSE LET d == CHOOSE o \in any : TRUE
             IN  (os \ {d}) \cup {[d EXCEPT !.attempts = @ + 1]}

\* the history of accepted codes after createOTP for (email, purpose)
ConsumedAfterCreate(cs, email, purpose) ==
    {c \in cs : ~(c[1] = Lower(email) /\ c[3] = purpose)}

\* the history of accepted codes after verifyOTP returned res
ConsumedAfterVerify(cs, email, otp, purpose, res) ==
    IF res = "ok" THEN cs \cup {<<Lower(email), otp, purpose>>} ELSE cs

\* incrementAttempts is not driven past AttemptsCap
IncrementWithinCap(os, email, otp, purpose) ==
    \A o \in OtpsMatching(os, email, otp, purpose) : o.attempts < AttemptsCap

NoOp == [op |-> "init"]

Requests == {1, 2}            \* the send-invitation requests that may be in flight together
IdleReq == [pc |-> "idle"]    \* no request in the slot

\* The in-memory MockDatabase: each of its Maps is a set of <<key, record>>
\* entries with no key twice; an id `${collection}_${n}` is the pair of its parts
Collections == {"users", "workspaces", "spaces", "tasks"}

MaxMockId == 3                         \* largest counter value a create call may draw

\* new MockDatabase(), before initializeData()
EmptyDb == [maps |-> [c \in Collections |-> {}], counters |-> [c \in Collections |-> 1]]

\* generateId(collection), the value returned
generateId(db, coll) == <<coll, db.counters[coll]>>

\* { _id: id, ...data }: an _id in the data replaces the generated one
NewRecord(id, data) ==
    [_id |-> IF "_id" \in DOMAIN data THEN data._id ELSE id, name |-> data.name]

\* Map.prototype.set(key, rec)
MapSet(m, key, rec) == {e \in m : e[1] # key} \cup {<<key, rec>>}

\* createUser, createWorkspace, createSpace and createTask, which differ in
\* the collection only: the database after the call
create(db, coll, data) ==
    LET id == generateId(db, coll)
    IN  [maps |-> [db.maps EXCEPT ![coll] = MapSet(@, id, NewRecord(id, data))],
         counters |-> [db.counters EXCEPT ![coll] = @ + 1]]

\* findUserById, findWorkspaceById, findSpaceById and findTaskById:
\* this[coll].get(id) || null, as the set of the record found, empty for null
findById(db, coll, id) == {e[2] : e \in {x \in db.maps[coll] : x[1] = id}}

\* initializeData(): the default user, its workspace and two spaces
initializeData(db) ==
    LET withUser == create(db, "users", [_id |-> <<"user", 1>>, name |-> "Test User"])
        withWs == create(withUser, "workspaces",
                         [_id |-> <<"workspaces", 1>>, name |-> "My First Workspace"])
        withSpace == create(withWs, "spaces", [_id |-> <<"space", 1>>, name |-> "General Space"])
    IN  create(withSpace, "spaces", [_id |-> <<"space", 2>>, name |-> "Project Alpha"])

Init ==
    /\ now = 0
    /\ otps = {}
    /\ consumed = {}
    /\ failedVerifies = [e \in LowerEmails |-> 0]
    /\ tempUsers = {}
    /\ users = {}
    /\ workspaces = {}
    /\ invitations = {}
    /\ nextId = 1
    /\ reqs = [r \in Requests |-> IdleReq]
    /\ timeLogs = {}
    /\ mockDb = initializeData(EmptyDb)
    /\ last = NoOp

\* the clock advances
Tick ==
    /\ now < MaxTime
    /\ now' = now + 1
    /\ last' = [op |-> "tick"]
    /\ UNCHANGED <<otps, consumed, failedVerifies, tempUsers, users, workspaces, invitations, nextId,
                   reqs, timeLogs, mockDb>>

\* OTP.createOTP(email, purpose), the generated code being any digit string
CreateOTP(email, purpose, code) ==
    /\ otps' = OtpsAfterCreate(otps, email, purpose, code, now)
    /\ consumed' = ConsumedAfterCreate(consumed, email, purpose)
    /\ last' = [op |-> "createOTP", email |-> email, code |-> code,
                purpose |-> purpose, res |-> "ok",
                deleted |-> Cardinality(OtpsFor(otps, email, purpose))]
    /\ UNCHANGED <<now, mockDb, failedVerifies, tempUsers, users, workspaces, invitations, nextId, reqs, timeLogs>>

\* OTP.verifyOTP(email, otp, purpose)
VerifyOTP(email, otp, purpose) ==
    LET res == VerifyOTPResult(otps, email, otp, purpose, now)
    IN  /\ otps' = OtpsAfterVerify(otps, email, otp, purpose, now)
        /\ consumed' = ConsumedAfterVerify(consumed, email, otp, purpose, res)
        /\ last' = [op |-> "verifyOTP", email |-> email, code |-> otp,
                    purpose |-> purpose, res |-> res]
        /\ UNCHANGED <<now, mockDb, failedVerifies, tempUsers, users, workspaces, invitations, nextId, reqs, timeLogs>>

\* OTP.incrementAttempts(email, otp, purpose)
IncrementAttempts(email, otp, purpose) ==
    /\ IncrementWithinCap(otps, email, otp, purpose)
    /\ otps' = OtpsAfterIncrement(otps, email, otp, purpose)
    /\ last' = [op |-> "incrementAttempts", email |-> email, code |-> otp,
                purpose |-> purpose, res |-> "ok"]
    /\ UNCHANGED <<now, mockDb, consumed, failedVerifies, tempUsers, users, workspaces, invitations, nextId, reqs, timeLogs>>

\* the store's TTL monitor on OTP.expiresAt (index: { expireAfterSeconds: 0 })
OtpTTL ==
    /\ \E o \in otps : o.expiresAt < now
    /\ otps' = {o \in otps : ~(o.expiresAt < now)}
    /\ last' = [op |-> "otpTTL"]
    /\ UNCHANGED <<now, mockDb, consumed, failedVerifies, tempUsers, users, workspaces, invitations, nextId, reqs, timeLogs>>

OtpNext ==
    \/ Tick
    \/ \E e \in OtpEmails, p \in Purposes, c \in Codes : CreateOTP(e, p, c)
    \/ \E e \in OtpEmails, p \in Purposes, c \in Codes : VerifyOTP(e, c, p)
    \/ \E e \in OtpEmails, p \in Purposes, c \in Codes : IncrementAttempts(e, c, p)
    \/ OtpTTL

OtpSpec == Init /\ [][OtpNext]_vars

-----------------------------------------------------------------------------
(* Properties of the OTP model, checked under OtpSpec *)

\* C1: after any sequence of createOTP calls run one after another there is
\* never more than one OTP document per (email, purpose), and right after a
\* createOTP for a pair exactly one document exists for it: the earlier codes
\* of the pair were deleted before the new one was stored.
C1_OneCodePerPair ==
    /\ \A e \in Emails, p \in Purposes : Cardinality(OtpsFor(otps, e, p)) <= 1
    /\ last.op = "createOTP" =>
           /\ Cardinality(OtpsFor(otps, last.email, last.purpose)) = 1
           /\ \A o \in OtpsFor(otps, last.email, last.purpose) :
                  o.otp = last.code /\ ~o.isUsed /\ o.attempts = 0

\* C1 witness: a createOTP that replaced an earlier code of the same pair
C1_Witness ==
    /\ last.op = "createOTP"
    /\ last.deleted = 1
    /\ Cardinality(otps) = 2

\* C2 as claimed: once verifyOTP(e, code, p) has succeeded and no new code was
\* issued for (e, p), every later verifyOTP(e, code, p) fails with the
\* already-used error.
C2_LaterVerifyAlreadyUsed ==
    [][(/\ last'.op = "verifyOTP"
        /\ <<Lower(last'.email), last'.code, last'.purpose>> \in consumed)
       => last'.res = "AlreadyUsed"]_vars

\* C2 as amended: once verifyOTP(e, code, p) has succeeded and no new code was
\* issued for (e, p), no later verifyOTP(e, code, p) succeeds: it fails with
\* the already-used error while the document is stored, and with the
\* invalid-code error once the expired document has been removed.
C2_VerifyAtMostOnce ==
    [][(/\ last'.op = "verifyOTP"
        /\ <<Lower(last'.email), last'.code, last'.purpose>> \in consumed)
       => /\ last'.res = IF OtpsMatching(otps, last'.email, last'.code, last'.purpose) # {}
                         THEN "AlreadyUsed" ELSE "InvalidOTP"
          /\ otps' = otps]_vars

\* C2 witness: a second verifyOTP of an accepted code, refused as already used
C2_Witness ==
    /\ last.op = "verifyOTP"
    /\ last.res = "AlreadyUsed"
    /\ <<Lower(last.email), last.code, last.purpose>> \in consumed

\* the outcome C5 prescribes for verifyOTP(email, otp, purpose) in collection os at time t
C5_Outcome(os, email, otp, purpose, t) ==
    LET m == OtpsMatching(os, email, otp, purpose)
    IN  IF m = {} THEN "InvalidOTP"
        ELSE IF \E o \in m : o.isUsed THEN "AlreadyUsed"
        ELSE IF \E o \in m : o.expiresAt <= t THEN "Expired"
        ELSE IF \E o \in m : o.attempts >= MaxAttempts THEN "TooManyAttempts"
        ELSE "ok"

\* C5: verifyOTP classifies in the order no matching triple (invalid code),
\* used (already used), expired, attempts >= 5 (too many attempts), and only
\* otherwise marks the document used and succeeds; on every error outcome the
\* collection, the used flag included, is unchanged.
C5_VerifyClassification ==
    [][last'.op = "verifyOTP" =>
       LET e == last'.email
           c == last'.code
           p == last'.purpose
       IN  /\ last'.res = C5_Outcome(otps, e, c, p, now)
           /\ last'.res # "ok" => otps' = otps
           /\ last'.res = "ok" =>
                  otps' = (otps \ OtpsMatching(otps, e, c, p))
                            \cup {[o EXCEPT !.isUsed = TRUE] : o \in OtpsMatching(otps, e, c, p)}
      ]_vars

\* C5 witness: an unused, unexpired code refused for too many attempts
C5_Witness ==
    /\ last.op = "verifyOTP"
    /\ last.res = "TooManyAttempts"
    /\ \E o \in OtpsMatching(otps, last.email, last.code, last.purpose) :
           ~o.isUsed /\ o.expiresAt > now /\ o.attempts >= MaxAttempts

-----------------------------------------------------------------------------
(* TemporaryUser and User models *)

\* a password as entered: bcrypt has not been applied to it
Plain(p) == [plain |-> p, rounds |-> 0]

\* bcrypt.hash(password, salt): one more application of bcrypt
Hash(pw) == [pw EXCEPT !.rounds = @ + 1]

\* bcrypt.compare(enteredPassword, this.password)
MatchPassword(stored, entered) == stored = Hash(Plain(entered))

\* userSchema.pre('save'): hashes unless the password path is unmodified
UserPreSave(pw, passwordModified) ==
    IF ~passwordModified THEN pw ELSE Hash(pw)

\* temporaryUserSchema.pre('save'): next() is called without return when the
\* password path is unmodified, so the hashing below it runs in either case
TempUserPreSave(pw, passwordModified) == Hash(pw)

\* documents of a collection matching { email } under a lowercase: true schema
TempUsersFor(tus, email) == {t \in tus : t.email = Lower(email)}

\* User documents matching { email }: the User schema stores the address as given
UsersFor(us, email) == {u \in us : u.email = email}

\* isModified('password') on the document promoteToUser builds with
\* new User(userData): every path set by the constructor is modified, and
\* markModified on the other paths does not clear it
PromotedPasswordModified == TRUE

\* promoteToUser: the value returned or the error thrown
PromoteResult(tus, us, email) ==
    IF TempUsersFor(tus, email) = {} THEN "TemporaryUserNotFound"
    ELSE IF UsersFor(us, (CHOOSE t \in TempUsersFor(tus, email) : TRUE).email) # {}
         THEN "DuplicateKey"     \* unique index on User.email
         ELSE "ok"

\* the User document promoteToUser saves
PromotedUser(tus, email, id) ==
    LET t == CHOOSE x \in TempUsersFor(tus, email) : TRUE
    IN  [id |-> id, email |-> t.email,
         password |-> UserPreSave(t.password, PromotedPasswordModified),
         status |-> "active", emailVerified |-> TRUE, workspaces |-> <<>>]

\* TemporaryUser.createTemporaryUser(userData)
CreateTemporaryUser(email, password) ==
    /\ tempUsers' = (tempUsers \ TempUsersFor(tempUsers, email))
                        \cup {[email |-> Lower(email),
                               password |-> TempUserPreSave(Plain(password), TRUE),
                               expiresAt |-> now]}
    /\ last' = [op |-> "createTemporaryUser", email |-> email, res |-> "ok"]
    /\ UNCHANGED <<now, mockDb, otps, consumed, failedVerifies, users, workspaces, invitations, nextId, reqs, timeLogs>>

\* promoteToUser that does not stop when no temporary user is found
PromoteToUserNoCheck(email) ==
    /\ nextId <= MaxIds
    /\ users' = users \cup {[id |-> nextId, email |-> Lower(email), password |-> Plain("abc"),
                              status |-> "active", emailVerified |-> TRUE, workspaces |-> <<>>]}
    /\ tempUsers' = tempUsers \ TempUsersFor(tempUsers, email)
    /\ nextId' = nextId + 1
    /\ last' = [op |-> "promoteToUser", email |-> email, res |-> "ok"]
    /\ UNCHANGED <<now, mockDb, otps, consumed, failedVerifies, workspaces, invitations, reqs, timeLogs>>

\* TemporaryUser.promoteToUser(email)
PromoteToUser(email) ==
    LET res == PromoteResult(tempUsers, users, email)
    IN  /\ res = "ok" => nextId <= MaxIds
        /\ IF res = "ok"
           THEN /\ users' = users \cup {PromotedUser(tempUsers, email, nextId)}
                /\ tempUsers' = tempUsers \ TempUsersFor(tempUsers, email)
                /\ nextId' = nextId + 1
           ELSE UNCHANGED <<users, tempUsers, nextId>>
        /\ last' = [op |-> "promoteToUser", email |-> email, res |-> res]
        /\ UNCHANGED <<now, mockDb, otps, consumed, failedVerifies, workspaces, invitations, reqs, timeLogs>>

TempNext ==
    \/ Tick
    \/ \E e \in Emails, p \in Passwords : CreateTemporaryUser(e, p)
    \/ \E e \in Emails : PromoteToUser(e)

TempSpec == Init /\ [][TempNext]_vars

-----------------------------------------------------------------------------
(* Properties of promotion, checked under TempSpec *)

\* C7: promoteToUser copies the pending registration's hashed password
\* verbatim: the stored password of the new account equals the stored
\* password of the pending record (the User pre-save hook does not hash it a
\* second time).
C7_PasswordCopiedVerbatim ==
    [][(last'.op = "promoteToUser" /\ last'.res = "ok") =>
       \A u \in users' \ users :
           \A t \in TempUsersFor(tempUsers, last'.email) : u.password = t.password]_vars

\* C8: promoteToUser(email) with no pending registration for the email fails
\* with the not-found error and leaves the store unchanged: no account and no
\* workspace is created.
C8_PromoteWithoutPending ==
    [][(last'.op = "promoteToUser" /\ TempUsersFor(tempUsers, last'.email) = {}) =>
       /\ last'.res = "TemporaryUserNotFound"
       /\ UNCHANGED <<users, workspaces, tempUsers, otps, invitations>>]_vars

\* C8 witness: a promoteToUser refused for want of a pending registration,
\* with accounts already in the store
C8_Witness ==
    /\ last.op = "promoteToUser"
    /\ last.res = "TemporaryUserNotFound"
    /\ TempUsersFor(tempUsers, last.email) = {}
    /\ users # {}

-----------------------------------------------------------------------------
(* Auth controller: POST /api/auth/register, /verify-email, /resend-otp *)

EV == "email_verification"

AuthEmails == {"A@x.com"}   \* the address the controller is driven with

\* where a request's store write throws, if anywhere
RegisterFails == {"none", "otpSave"}
VerifyFails == {"none", "userSave", "workspaceCreate", "userWorkspacesSave"}

SeqRange(q) == {q[i] : i \in 1..Len(q)}

\* documents matching { email, purpose, isUsed: false, expiresAt > now }: the active code of an address
ActiveOtps(os, email, t) ==
    {o \in OtpsFor(os, email, EV) : ~o.isUsed /\ o.expiresAt > t}

\* registerUser: the response
RegisterResult(us, email, password, fail) ==
    IF PasswordLen(password) < MinPasswordLen THEN "PasswordTooShort"
    ELSE IF \E u \in UsersFor(us, email) : u.emailVerified THEN "UserExists"
    ELSE IF fail = "otpSave" THEN "FailedToSendVerification"
    ELSE "ok"

\* registerUser that deletes the created user when the mail is not delivered
UsersAfterRegisterRollback(us, email, password, id, delivered, fail) ==
    IF RegisterResult(us, email, password, fail) = "ok" /\ delivered
    THEN (us \ UsersFor(us, email))
            \cup {[id |-> id, email |-> email,
                   password |-> UserPreSave(Plain(password), TRUE),
                   status |-> "pending", emailVerified |-> FALSE, workspaces |-> <<>>]}
    ELSE IF RegisterResult(us, email, password, fail) \in {"PasswordTooShort", "UserExists"}
         THEN us
         ELSE us \ UsersFor(us, email)

\* registerUser: the User collection afterwards
UsersAfterRegister(us, email, password, id, delivered, fail) ==
    LET res == RegisterResult(us, email, password, fail)
        created == [id |-> id, email |-> email,
                    password |-> UserPreSave(Plain(password), TRUE),
                    status |-> "pending", emailVerified |-> FALSE, workspaces |-> <<>>]
    IN  IF res \in {"PasswordTooShort", "UserExists"} THEN us
        ELSE IF res = "FailedToSendVerification"
        THEN us \ UsersFor(us, email)     \* the catch block deletes the created user
        ELSE (us \ UsersFor(us, email)) \cup {created}

\* registerUser: the OTP collection afterwards (createOTP: deleteMany, then save)
OtpsAfterRegister(os, us, email, password, code, t, fail) ==
    LET res == RegisterResult(us, email, password, fail)
    IN  IF res = "ok" THEN OtpsAfterCreate(os, email, EV, code, t)
        ELSE IF res = "FailedToSendVerification" THEN os \ OtpsFor(os, email, EV)
        ELSE os

\* POST /api/auth/register
Register(email, password, code, delivered, fail) ==
    LET res == RegisterResult(users, email, password, fail)
        reachedCreate == res \in {"ok", "FailedToSendVerification"}
    IN  /\ reachedCreate => nextId <= MaxIds
        /\ users' = UsersAfterRegister(users, email, password, nextId, delivered, fail)
        /\ otps' = OtpsAfterRegister(otps, users, email, password, code, now, fail)
        /\ nextId' = IF reachedCreate THEN nextId + 1 ELSE nextId
        /\ consumed' = IF reachedCreate THEN ConsumedAfterCreate(consumed, email, EV) ELSE consumed
        /\ failedVerifies' = IF reachedCreate
                             THEN [failedVerifies EXCEPT ![Lower(email)] = 0]
                             ELSE failedVerifies
        /\ last' = [op |-> "register", email |-> email, code |-> code, res |-> res,
                    issued |-> (res = "ok"), delivered |-> (res = "ok" /\ delivered)]
        /\ UNCHANGED <<now, mockDb, tempUsers, workspaces, invitations, reqs, timeLogs>>

\* resendOTP: the response
ResendResult(us, email, delivered) ==
    IF UsersFor(us, email) = {} THEN "UserNotFound"
    ELSE IF \E u \in UsersFor(us, email) : u.emailVerified THEN "AlreadyVerified"
    ELSE IF ~delivered THEN "FailedToSendOTPEmail"
    ELSE "ok"

\* resendOTP: the OTP collection afterwards
OtpsAfterResend(os, us, email, code, t, delivered) ==
    IF ResendResult(us, email, delivered) \in {"ok", "FailedToSendOTPEmail"}
    THEN OtpsAfterCreate(os, email, EV, code, t)
    ELSE os

\* POST /api/auth/resend-otp
ResendOTP(email, code, delivered) ==
    LET res == ResendResult(users, email, delivered)
        issued == res \in {"ok", "FailedToSendOTPEmail"}
    IN  /\ otps' = OtpsAfterResend(otps, users, email, code, now, delivered)
        /\ consumed' = IF issued THEN ConsumedAfterCreate(consumed, email, EV) ELSE consumed
        /\ failedVerifies' = IF issued
                             THEN [failedVerifies EXCEPT ![Lower(email)] = 0]
                             ELSE failedVerifies
        /\ last' = [op |-> "resendOTP", email |-> email, code |-> code, res |-> res,
                    issued |-> issued, delivered |-> (res = "ok")]
        /\ UNCHANGED <<now, mockDb, tempUsers, users, workspaces, invitations, nextId, reqs, timeLogs>>

\* verifyEmail: the response (the message of the error caught, or success)
VerifyEmailResult(os, us, email, otp, t, fail) ==
    LET v == VerifyOTPResult(os, email, otp, EV, t)
    IN  IF v # "ok" THEN v
        ELSE IF UsersFor(us, email) = {} THEN "UserNotFound"
        ELSE IF \E u \in UsersFor(us, email) : u.emailVerified THEN "AlreadyVerified"
        ELSE IF fail # "none" THEN "StoreError"
        ELSE "ok"

\* verifyEmail: the OTP collection afterwards; the catch block calls
\* incrementAttempts with the address and the code the request presented
OtpsAfterVerifyEmail(os, us, email, otp, t, fail) ==
    LET verified == OtpsAfterVerify(os, email, otp, EV, t)
    IN  IF VerifyEmailResult(os, us, email, otp, t, fail) = "ok"
        THEN verified
        ELSE OtpsAfterIncrement(verified, email, otp, EV)

\* verifyEmail: the User collection afterwards
UsersAfterVerifyEmail(os, us, email, otp, t, wsId, fail) ==
    LET res == VerifyEmailResult(os, us, email, otp, t, fail)
    IN  IF res \notin {"ok", "StoreError"} \/ fail = "userSave" THEN us
        ELSE LET u == CHOOSE x \in UsersFor(us, email) : TRUE
                 verified == [u EXCEPT !.emailVerified = TRUE, !.status = "active"]
             IN  (us \ {u}) \cup
                 {IF fail = "none"
                  THEN [verified EXCEPT !.workspaces = Append(@, wsId)]
                  ELSE verified}

\* verifyEmail: the Workspace collection afterwards
WorkspacesAfterVerifyEmail(os, us, ws, email, otp, t, wsId, fail) ==
    LET res == VerifyEmailResult(os, us, email, otp, t, fail)
    IN  IF res \in {"ok", "StoreError"} /\ fail \in {"none", "userWorkspacesSave"}
        THEN LET u == CHOOSE x \in UsersFor(us, email) : TRUE
             IN  ws \cup {[id |-> wsId, owner |-> u.id,
                           members |-> <<[user |-> u.id, role |-> "admin"]>>]}
        ELSE ws

\* POST /api/auth/verify-email
VerifyEmail(email, otp, fail) ==
    LET res == VerifyEmailResult(otps, users, email, otp, now, fail)
        v == VerifyOTPResult(otps, email, otp, EV, now)
        createsWorkspace == res \in {"ok", "StoreError"} /\ fail \in {"none", "userWorkspacesSave"}
    IN  /\ res # "ok" => IncrementWithinCap(otps, email, otp, EV)
        /\ createsWorkspace => nextId <= MaxIds
        /\ otps' = OtpsAfterVerifyEmail(otps, users, email, otp, now, fail)
        /\ users' = UsersAfterVerifyEmail(otps, users, email, otp, now, nextId, fail)
        /\ workspaces' = WorkspacesAfterVerifyEmail(otps, users, workspaces, email, otp, now, nextId, fail)
        /\ nextId' = IF createsWorkspace THEN nextId + 1 ELSE nextId
        /\ consumed' = ConsumedAfterVerify(consumed, email, otp, EV, v)
        /\ failedVerifies' =
              IF res # "ok" /\ ActiveOtps(otps, email, now) # {}
                 /\ failedVerifies[Lower(email)] < MaxAttempts
              THEN [failedVerifies EXCEPT ![Lower(email)] = @ + 1]
              ELSE failedVerifies
        /\ last' = [op |-> "verifyEmail", email |-> email, code |-> otp, res |-> res]
        /\ UNCHANGED <<now, mockDb, tempUsers, invitations, reqs, timeLogs>>

LoginEmails == {"A@x.com", "a@x.com"}    \* req.body.email of login

\* authUser comparing the password before it looks at emailVerified
LoginResultPasswordFirst(us, email, password) ==
    IF UsersFor(us, email) = {} THEN "InvalidEmailOrPassword"
    ELSE LET user == CHOOSE u \in UsersFor(us, email) : TRUE
         IN  IF ~MatchPassword(user.password, password) THEN "InvalidEmailOrPassword"
             ELSE IF ~user.emailVerified THEN "PleaseVerifyEmail"
             ELSE "ok"

\* authUser: the response ("ok": the body carrying generateToken(user._id))
LoginResult(us, email, password) ==
    IF UsersFor(us, email) = {} THEN "InvalidEmailOrPassword"
    ELSE LET user == CHOOSE u \in UsersFor(us, email) : TRUE
         IN  IF ~user.emailVerified THEN "PleaseVerifyEmail"
             ELSE IF MatchPassword(user.password, password) THEN "ok"
             ELSE "InvalidEmailOrPassword"

\* POST /api/auth/login
Login(email, password) ==
    /\ last' = [op |-> "login", email |-> email, password |-> password,
                res |-> LoginResult(users, email, password)]
    /\ UNCHANGED <<now, mockDb, otps, consumed, failedVerifies, tempUsers, users, workspaces,
                   invitations, nextId, reqs, timeLogs>>

Next ==
    \/ Tick
    \/ \E e \in LoginEmails, p \in Passwords : Login(e, p)
    \/ \E e \in AuthEmails, p \in Passwords, c \in Codes, d \in BOOLEAN, f \in RegisterFails :
          Register(e, p, c, d, f)
    \/ \E e \in AuthEmails, c \in Codes, d \in BOOLEAN : ResendOTP(e, c, d)
    \/ \E e \in AuthEmails, c \in Codes, f \in VerifyFails : VerifyEmail(e, c, f)
    \/ OtpTTL

Spec == Init /\ [][Next]_vars

-----------------------------------------------------------------------------
(* Properties of the auth controller, checked under Spec *)

\* C3: after 5 failed verify-email attempts against the same active OTP of an
\* address, the next attempt, presenting the correct code, fails with the
\* too-many-attempts error and the OTP is not marked used.
C3_SixthAttemptRefused ==
    [][(/\ last'.op = "verifyEmail"
        /\ failedVerifies[Lower(last'.email)] >= MaxAttempts
        /\ \E o \in ActiveOtps(otps, last'.email, now) : o.otp = last'.code)
       => /\ last'.res = "TooManyAttempts"
          /\ \A o \in OtpsFor(otps', last'.email, EV) : ~o.isUsed]_vars

\* C4: every failed verify-email request that presents a wrong code for an
\* address that has an active OTP increments the attempt counter of that
\* active OTP document by exactly 1 and leaves it unused.
C4_WrongCodeCounts ==
    [][(/\ last'.op = "verifyEmail"
        /\ last'.res # "ok"
        /\ \E o \in ActiveOtps(otps, last'.email, now) : o.otp # last'.code)
       => otps' = (otps \ ActiveOtps(otps, last'.email, now))
                     \cup {[o EXCEPT !.attempts = @ + 1] : o \in ActiveOtps(otps, last'.email, now)}]_vars

\* account u has its default workspace: one it owns, with u as the sole
\* member, an admin, and listed in u.workspaces
HasDefaultWorkspace(u, ws) ==
    \E w \in ws : /\ w.owner = u.id
                  /\ w.members = <<[user |-> u.id, role |-> "admin"]>>
                  /\ w.id \in SeqRange(u.workspaces)

\* C6: in every state in which a verify-email request has ended, whether it
\* succeeded or failed at any step, an account is verified and active if and
\* only if it has its default workspace.
C6_PromotionAtomic ==
    [][last'.op = "verifyEmail" =>
       \A u \in users' :
           (u.emailVerified /\ u.status = "active") <=> HasDefaultWorkspace(u, workspaces')]_vars

-----------------------------------------------------------------------------
(* TeamInvitation model *)

InvEmails == {"a@x.com", "A@x.com"}      \* the addresses invited
InvWorkspaces == {1, 2}                  \* the workspaceId values used
InvUsers == {1}                          \* the ObjectIds of inviters and accepting users
Roles == {"member", "manager", "admin"}  \* teamInvitationSchema.role enum
InvRoles == {"member", "admin"}          \* the roles the invitation model is driven with

NoUser == 0     \* acceptedBy not set

\* documents matching { email, workspaceId, status: 'pending', expiresAt: { $gt: now } }
PendingFor(invs, email, ws, t) ==
    {i \in invs : /\ i.email = Lower(email)
                  /\ i.workspaceId = ws
                  /\ i.status = "pending"
                  /\ i.expiresAt > t}

\* createInvitation refusing whenever any invitation of the pair is stored
CreateInvitationResultAnyStatus(invs, email, ws, t) ==
    IF {i \in invs : i.email = Lower(email) /\ i.workspaceId = ws} # {}
    THEN "Conflict" ELSE "ok"

\* createInvitation: the value returned or the error thrown
CreateInvitationResult(invs, email, ws, t) ==
    IF PendingFor(invs, email, ws, t) # {} THEN "Conflict" ELSE "ok"

\* the document createInvitation saves; generateToken draws 32 random bytes,
\* modelled as a value never handed out before
NewInvitation(email, ws, by, role, token, t) ==
    [email |-> Lower(email), workspaceId |-> ws, invitedBy |-> by, role |-> role,
     token |-> token, status |-> "pending", acceptedBy |-> NoUser,
     expiresAt |-> t + InvitationExpiryTicks]

\* documents matching { token }
InvitationsByToken(invs, token) == {i \in invs : i.token = token}

\* findByToken: the documents matching { token, status: 'pending', expiresAt: { $gt: now } }
FindByToken(invs, token, t) ==
    {i \in InvitationsByToken(invs, token) : i.status = "pending" /\ i.expiresAt > t}

\* findByToken telling a token no document carries from a resolved or expired one
FindByTokenResultDistinct(invs, token, t) ==
    IF FindByToken(invs, token, t) # {} THEN "ok"
    ELSE IF InvitationsByToken(invs, token) = {} THEN "NotFound"
    ELSE "InvalidOrExpired"

\* findByToken: the document is returned, or the error thrown
FindByTokenResult(invs, token, t) ==
    IF FindByToken(invs, token, t) # {} THEN "ok" ELSE "InvalidOrExpired"

\* accept: the value returned or the error thrown
AcceptResult(inv, t) ==
    IF inv.status # "pending" THEN "NoLongerPending"
    ELSE IF inv.expiresAt < t THEN "Expired"
    ELSE "ok"

\* accept leaving a pending invitation past its expiry as it is
AcceptedInvitationNoExpire(inv, userId, t) ==
    IF inv.status # "pending" THEN inv
    ELSE IF inv.expiresAt < t THEN inv
    ELSE [inv EXCEPT !.status = "accepted", !.acceptedBy = userId]

\* accept: the document afterwards
AcceptedInvitation(inv, userId, t) ==
    IF inv.status # "pending" THEN inv
    ELSE IF inv.expiresAt < t THEN [inv EXCEPT !.status = "expired"]
    ELSE [inv EXCEPT !.status = "accepted", !.acceptedBy = userId]

\* decline: the value returned or the error thrown
DeclineResult(inv) ==
    IF inv.status # "pending" THEN "NoLongerPending" ELSE "ok"

\* decline without the status check
DeclinedInvitationNoGuard(inv) == [inv EXCEPT !.status = "declined"]

\* decline: the document afterwards
DeclinedInvitation(inv) ==
    IF inv.status # "pending" THEN inv ELSE [inv EXCEPT !.status = "declined"]

\* TeamInvitation.createInvitation(invitationData)
CreateInvitation(email, ws, by, role) ==
    LET res == CreateInvitationResult(invitations, email, ws, now)
    IN  /\ res = "ok" => nextId <= MaxIds
        /\ invitations' = IF res = "ok"
                          THEN invitations \cup {NewInvitation(email, ws, by, role, nextId, now)}
                          ELSE invitations
        /\ nextId' = IF res = "ok" THEN nextId + 1 ELSE nextId
        /\ last' = [op |-> "createInvitation", email |-> email, ws |-> ws, res |-> res]
        /\ UNCHANGED <<now, mockDb, otps, consumed, failedVerifies, tempUsers, users, workspaces, reqs, timeLogs>>

\* invitation.accept(userId) on the stored document with the token
AcceptInvitationDoc(token, userId) ==
    \E inv \in InvitationsByToken(invitations, token) :
        /\ invitations' = (invitations \ {inv}) \cup {AcceptedInvitation(inv, userId, now)}
        /\ last' = [op |-> "accept", token |-> token, res |-> AcceptResult(inv, now)]
        /\ UNCHANGED <<now, mockDb, otps, consumed, failedVerifies, tempUsers, users, workspaces, nextId, reqs, timeLogs>>

\* invitation.decline() on the stored document with the token
DeclineInvitationDoc(token) ==
    \E inv \in InvitationsByToken(invitations, token) :
        /\ invitations' = (invitations \ {inv}) \cup {DeclinedInvitation(inv)}
        /\ last' = [op |-> "decline", token |-> token, res |-> DeclineResult(inv)]
        /\ UNCHANGED <<now, mockDb, otps, consumed, failedVerifies, tempUsers, users, workspaces, nextId, reqs, timeLogs>>

\* TeamInvitation.findByToken(token)
FindByTokenCall(token) ==
    /\ last' = [op |-> "findByToken", token |-> token,
                res |-> FindByTokenResult(invitations, token, now),
                found |-> FindByToken(invitations, token, now)]
    /\ UNCHANGED <<now, mockDb, otps, consumed, failedVerifies, tempUsers, users, workspaces,
                   invitations, nextId, reqs, timeLogs>>

\* TeamInvitation.cleanupExpired()
CleanupExpired ==
    /\ invitations' = {IF i.status = "pending" /\ i.expiresAt < now
                       THEN [i EXCEPT !.status = "expired"] ELSE i : i \in invitations}
    /\ last' = [op |-> "cleanupExpired"]
    /\ UNCHANGED <<now, mockDb, otps, consumed, failedVerifies, tempUsers, users, workspaces, nextId, reqs, timeLogs>>

\* the store's TTL monitor on TeamInvitation.expiresAt (index: { expireAfterSeconds: 0 })
InvitationTTL ==
    /\ \E i \in invitations : i.expiresAt < now
    /\ invitations' = {i \in invitations : ~(i.expiresAt < now)}
    /\ last' = [op |-> "invitationTTL"]
    /\ UNCHANGED <<now, mockDb, otps, consumed, failedVerifies, tempUsers, users, workspaces, nextId, reqs, timeLogs>>

InvNext ==
    \/ Tick
    \/ \E e \in InvEmails, w \in InvWorkspaces, u \in InvUsers, r \in InvRoles :
          CreateInvitation(e, w, u, r)
    \/ \E k \in 1..MaxIds, u \in InvUsers : AcceptInvitationDoc(k, u)
    \/ \E k \in 1..MaxIds : DeclineInvitationDoc(k)
    \/ \E k \in 1..MaxIds : FindByTokenCall(k)
    \/ CleanupExpired
    \/ InvitationTTL

InvSpec == Init /\ [][InvNext]_vars

-----------------------------------------------------------------------------
(* Properties of the invitation model, checked under InvSpec *)

\* C10: createInvitation for (email, workspace) fails with the conflict
\* error, creating nothing, while a pending unexpired invitation of the pair
\* is stored; when none is (in particular once that invitation has been
\* accepted or declined) it succeeds and stores exactly one new pending
\* invitation of the pair, under a token no stored invitation carries.
C10_ConflictWhilePending ==
    [][last'.op = "createInvitation" =>
       LET pair == {i \in invitations : /\ i.email = Lower(last'.email)
                                        /\ i.workspaceId = last'.ws}
       IN  /\ (\E i \in pair : i.status = "pending" /\ i.expiresAt > now) =>
                 last'.res = "Conflict" /\ invitations' = invitations
           /\ (pair # {} /\ \A i \in pair : i.status \in {"accepted", "declined"}) =>
                 /\ last'.res = "ok"
                 /\ invitations \subseteq invitations'
                 /\ \E n \in invitations' \ invitations :
                        /\ invitations' = invitations \cup {n}
                        /\ n.email = Lower(last'.email) /\ n.workspaceId = last'.ws
                        /\ n.status = "pending" /\ n.expiresAt > now
                        /\ \A i \in invitations : i.token # n.token
      ]_vars

\* C10 witness: a createInvitation that succeeded for a pair whose earlier
\* invitation was accepted
C10_Witness ==
    /\ last.op = "createInvitation"
    /\ last.res = "ok"
    /\ \E i, n \in invitations :
           /\ i.email = Lower(last.email) /\ i.workspaceId = last.ws /\ i.status = "accepted"
           /\ n.email = i.email /\ n.workspaceId = i.workspaceId /\ n.status = "pending"
           /\ n.token # i.token

\* C12: accept on a pending invitation whose expiresAt is in the past stores
\* it with status expired, fails with the expired error and records no
\* acceptedBy; and a token whose invitation is expired stays unfindable:
\* findByToken on it fails with the invalid-or-expired error, and in the next
\* state every stored invitation of the token is still expired.
C12_AcceptPastExpiry ==
    [][/\ last'.op = "accept" =>
             \A inv \in InvitationsByToken(invitations, last'.token) :
                 (inv.status = "pending" /\ inv.expiresAt < now) =>
                     /\ last'.res = "Expired"
                     /\ invitations' = (invitations \ {inv})
                                          \cup {[inv EXCEPT !.status = "expired"]}
                     /\ \A i \in InvitationsByToken(invitations', last'.token) :
                            i.acceptedBy = NoUser
       /\ \A inv \in invitations : inv.status = "expired" =>
             /\ \A i \in InvitationsByToken(invitations', inv.token) : i.status = "expired"
             /\ (last'.op = "findByToken" /\ last'.token = inv.token) =>
                    last'.res = "InvalidOrExpired" /\ last'.found = {}
      ]_vars

\* C12 witness: an accept that failed with the expired error and left the
\* invitation expired
C12_Witness ==
    /\ last.op = "accept"
    /\ last.res = "Expired"
    /\ \E i \in InvitationsByToken(invitations, last.token) :
           i.status = "expired" /\ i.acceptedBy = NoUser

\* C13: an invitation whose status is accepted, declined or expired is never
\* stored with another status again, whatever operation runs; accept and
\* decline on a non-pending invitation fail with the no-longer-pending error
\* and change nothing.
C13_TerminalStatuses ==
    [][/\ \A inv \in invitations : inv.status \in {"accepted", "declined", "expired"} =>
             \A i \in InvitationsByToken(invitations', inv.token) : i = inv
       /\ \A inv \in invitations : inv.status = "pending" =>
             \A i \in InvitationsByToken(invitations', inv.token) :
                 i.status \in {"pending", "accepted", "declined", "expired"}
       /\ last'.op \in {"accept", "decline"} =>
             \A inv \in InvitationsByToken(invitations, last'.token) :
                 inv.status # "pending" =>
                     last'.res = "NoLongerPending" /\ invitations' = invitations
      ]_vars

\* C13 witness: a decline refused on an invitation accepted before
C13_Witness ==
    /\ last.op = "decline"
    /\ last.res = "NoLongerPending"
    /\ \E i \in InvitationsByToken(invitations, last.token) : i.status = "accepted"

\* C14: findByToken returns an invitation only when it is stored under the
\* token with status pending and an expiresAt after now; for a token no
\* invitation carries, for one whose invitation is accepted, declined or
\* expired, and for one past its expiry, it fails with the same
\* invalid-or-expired error.
C14_FindByTokenOneError ==
    [][last'.op = "findByToken" =>
         LET byToken == InvitationsByToken(invitations, last'.token)
             valid == {i \in byToken : i.status = "pending" /\ i.expiresAt > now}
         IN  /\ last'.found = valid
             /\ valid # {} => last'.res = "ok"
             /\ byToken = {} => last'.res = "InvalidOrExpired"
             /\ (\E i \in byToken : i.status # "pending") => last'.res = "InvalidOrExpired"
             /\ (\E i \in byToken : ~(i.expiresAt > now)) => last'.res = "InvalidOrExpired"
      ]_vars

\* C14 witness: findByToken failing on a token no invitation was ever stored under
C14_Witness ==
    /\ last.op = "findByToken"
    /\ last.res = "InvalidOrExpired"
    /\ InvitationsByToken(invitations, last.token) = {}
    /\ last.token >= nextId

-----------------------------------------------------------------------------
(* Invitation controller (send / accept / decline) over a populated store *)

OwnerId == 11        \* the account owning the shared workspace
MemberId == 12       \* an account added to it with role member
InviteeId == 13      \* a verified account outside it, registered as a@x.com
UnverifiedId == 14   \* an account registered as A@x.com that has not verified its address
SharedWs == 21       \* the shared workspace
MemberWs == 22       \* the default workspace of MemberId
InviteeWs == 23      \* the default workspace of InviteeId
MissingWs == 29      \* an id no workspace carries

WorkspaceRoles == {"admin", "member", "guest"}   \* workspaceSchema.members.role enum
InviterRoles == {"admin", "manager"}             \* sendInvitation: roles allowed to invite

\* a stored account; its password went through the pre-save hook once
Account(id, email, verified, wss) ==
    [id |-> id, email |-> email, password |-> UserPreSave(Plain("secret1"), TRUE),
     status |-> IF verified THEN "active" ELSE "pending",
     emailVerified |-> verified, workspaces |-> wss]

\* the accounts after four registrations, three of them verified, and one add-member
CtlUsers ==
    {Account(OwnerId, "owner@x.com", TRUE, <<SharedWs>>),
     Account(MemberId, "member@x.com", TRUE, <<MemberWs, SharedWs>>),
     Account(InviteeId, "a@x.com", TRUE, <<InviteeWs>>),
     Account(UnverifiedId, "A@x.com", FALSE, <<>>)}

\* the default workspaces verifyEmail created, MemberId added to the first
CtlWorkspaces ==
    {[id |-> SharedWs, owner |-> OwnerId,
      members |-> <<[user |-> OwnerId, role |-> "admin"], [user |-> MemberId, role |-> "member"]>>],
     [id |-> MemberWs, owner |-> MemberId, members |-> <<[user |-> MemberId, role |-> "admin"]>>],
     [id |-> InviteeWs, owner |-> InviteeId, members |-> <<[user |-> InviteeId, role |-> "admin"]>>]}

Requesters == {OwnerId, MemberId, InviteeId}                  \* req.user of send-invitation
Accepters == {NoUser, InviteeId, MemberId, UnverifiedId}      \* req.body.userId of accept-invitation
Decliners == {NoUser, InviteeId, MemberId}                    \* who sends decline-invitation
SendEmails == {"A@x.com", "member@x.com"}                     \* req.body.email
SendWorkspaces == {SharedWs, MissingWs}                       \* req.body.workspaceId
AcceptFails == {"none", "workspaceSave", "userSave"}                  \* the store write that throws

CtlInit ==
    /\ now = 0
    /\ otps = {}
    /\ consumed = {}
    /\ failedVerifies = [e \in LowerEmails |-> 0]
    /\ tempUsers = {}
    /\ users = CtlUsers
    /\ workspaces = CtlWorkspaces
    /\ invitations = {}
    /\ nextId = 1
    /\ reqs = [r \in Requests |-> IdleReq]
    /\ timeLogs = {}
    /\ mockDb = initializeData(EmptyDb)
    /\ last = NoOp

\* User.findById / Workspace.findById
UsersById(us, id) == {u \in us : u.id = id}
WorkspacesById(wss, id) == {w \in wss : w.id = id}

\* workspace.members.find(member => member.user.toString() === id.toString())
MembershipsOf(w, id) == {m \in SeqRange(w.members) : m.user = id}

\* the first entry of workspace.members for the user, as Array.prototype.find returns it
FirstMembership(w, id) ==
    LET idx == {i \in 1..Len(w.members) : w.members[i].user = id}
    IN  w.members[CHOOSE i \in idx : \A j \in idx : i <= j]

\* sendInvitation letting every member of the workspace invite
SendInvitationResultNoRoleCheck(us, wss, invs, userId, email, ws, t, delivered) ==
    IF WorkspacesById(wss, ws) = {} THEN "WorkspaceNotFound"
    ELSE LET w == CHOOSE x \in WorkspacesById(wss, ws) : TRUE
             requester == CHOOSE u \in UsersById(us, userId) : TRUE
         IN  IF MembershipsOf(w, userId) = {} THEN "NotMember"
             ELSE IF Lower(email) = Lower(requester.email) THEN "SelfInvite"
             ELSE IF \E u \in UsersFor(us, Lower(email)) : MembershipsOf(w, u.id) # {}
             THEN "AlreadyMember"
             ELSE IF CreateInvitationResult(invs, Lower(email), ws, t) # "ok" THEN "Conflict"
             ELSE IF ~delivered THEN "EmailFailed"
             ELSE "ok"

\* sendInvitation: the answer of the request
SendInvitationResult(us, wss, invs, userId, email, ws, t, delivered) ==
    IF WorkspacesById(wss, ws) = {} THEN "WorkspaceNotFound"
    ELSE LET w == CHOOSE x \in WorkspacesById(wss, ws) : TRUE
             requester == CHOOSE u \in UsersById(us, userId) : TRUE
         IN  IF MembershipsOf(w, userId) = {} THEN "NotMember"
             ELSE IF FirstMembership(w, userId).role \notin InviterRoles THEN "NoPermission"
             ELSE IF Lower(email) = Lower(requester.email) THEN "SelfInvite"
             ELSE IF \E u \in UsersFor(us, Lower(email)) : MembershipsOf(w, u.id) # {}
             THEN "AlreadyMember"
             ELSE IF CreateInvitationResult(invs, Lower(email), ws, t) # "ok" THEN "Conflict"
             ELSE IF ~delivered THEN "EmailFailed"
             ELSE "ok"

\* sendInvitation keeping the invitation whose email was not delivered
InvitationsAfterSendNoDelete(us, wss, invs, userId, email, ws, role, token, t, delivered) ==
    IF SendInvitationResult(us, wss, invs, userId, email, ws, t, delivered) \in {"ok", "EmailFailed"}
    THEN invs \cup {NewInvitation(Lower(email), ws, userId, role, token, t)}
    ELSE invs

\* sendInvitation: the TeamInvitation collection afterwards (createInvitation,
\* then findByIdAndDelete when the email was not delivered)
InvitationsAfterSend(us, wss, invs, userId, email, ws, role, token, t, delivered) ==
    LET res == SendInvitationResult(us, wss, invs, userId, email, ws, t, delivered)
        created == NewInvitation(Lower(email), ws, userId, role, token, t)
    IN  IF res = "ok" THEN invs \cup {created}
        ELSE IF res = "EmailFailed" THEN (invs \cup {created}) \ {created}
        ELSE invs

\* POST /api/invitations/send, req.user being the account userId
SendInvitation(userId, email, ws, role, delivered) ==
    LET res == SendInvitationResult(users, workspaces, invitations, userId, email, ws, now, delivered)
        created == res \in {"ok", "EmailFailed"}
    IN  /\ UsersById(users, userId) # {}
        /\ created => nextId <= MaxIds
        /\ invitations' = InvitationsAfterSend(users, workspaces, invitations, userId, email,
                                               ws, role, nextId, now, delivered)
        /\ nextId' = IF created THEN nextId + 1 ELSE nextId
        /\ last' = [op |-> "sendInvitation", by |-> userId, email |-> email, ws |-> ws,
                    res |-> res]
        /\ UNCHANGED <<now, mockDb, otps, consumed, failedVerifies, tempUsers, users, workspaces, reqs, timeLogs>>

\* acceptInvitation: the account the request acts for (User.findById(userId),
\* or User.findOne({ email: invitation.email }) when no userId is sent)
AcceptUsers(us, inv, userId) ==
    IF userId # NoUser THEN UsersById(us, userId) ELSE UsersFor(us, inv.email)

\* acceptInvitation: the answer of the request
AcceptInvitationResult(us, wss, invs, token, userId, t, fail) ==
    IF FindByToken(invs, token, t) = {} THEN "InvalidOrExpired"
    ELSE LET inv == CHOOSE i \in FindByToken(invs, token, t) : TRUE
             found == AcceptUsers(us, inv, userId)
         IN  IF found = {} THEN (IF userId # NoUser THEN "UserNotFound" ELSE "RegisterFirst")
             ELSE LET user == CHOOSE u \in found : TRUE
                  IN  IF userId # NoUser /\ Lower(user.email) # Lower(inv.email)
                      THEN "NotYourEmail"
                      ELSE IF ~user.emailVerified THEN "VerifyEmailFirst"
                      ELSE IF AcceptResult(inv, t) # "ok" THEN AcceptResult(inv, t)
                      ELSE IF WorkspacesById(wss, inv.workspaceId) = {} THEN "TypeError"
                      ELSE IF inv.role \notin WorkspaceRoles THEN "ValidationError"
                      ELSE IF fail = "workspaceSave" THEN "StoreError"
                      ELSE IF fail = "userSave" /\ inv.workspaceId \notin SeqRange(user.workspaces)
                      THEN "StoreError"
                      ELSE "ok"

\* acceptInvitation: the answers given after invitation.accept(user._id) was called
ReachedAccept == {"ok", "Expired", "NoLongerPending", "TypeError", "ValidationError", "StoreError"}

\* acceptInvitation: the TeamInvitation collection afterwards
InvitationsAfterAccept(us, wss, invs, token, userId, t, fail) ==
    IF AcceptInvitationResult(us, wss, invs, token, userId, t, fail) \in ReachedAccept
    THEN LET inv == CHOOSE i \in FindByToken(invs, token, t) : TRUE
             user == CHOOSE u \in AcceptUsers(us, inv, userId) : TRUE
         IN  (invs \ {inv}) \cup {AcceptedInvitation(inv, user.id, t)}
    ELSE invs

\* acceptInvitation: the Workspace collection afterwards (members.push, workspace.save)
WorkspacesAfterAccept(us, wss, invs, token, userId, t, fail) ==
    LET res == AcceptInvitationResult(us, wss, invs, token, userId, t, fail)
    IN  IF res = "ok" \/ (res = "StoreError" /\ fail = "userSave")
        THEN LET inv == CHOOSE i \in FindByToken(invs, token, t) : TRUE
                 user == CHOOSE u \in AcceptUsers(us, inv, userId) : TRUE
                 w == CHOOSE x \in WorkspacesById(wss, inv.workspaceId) : TRUE
             IN  (wss \ {w}) \cup
                 {[w EXCEPT !.members = Append(@, [user |-> user.id, role |-> inv.role])]}
        ELSE wss

\* acceptInvitation: the User collection afterwards (workspaces.push, user.save)
UsersAfterAccept(us, wss, invs, token, userId, t, fail) ==
    IF AcceptInvitationResult(us, wss, invs, token, userId, t, fail) = "ok"
    THEN LET inv == CHOOSE i \in FindByToken(invs, token, t) : TRUE
             user == CHOOSE u \in AcceptUsers(us, inv, userId) : TRUE
         IN  IF inv.workspaceId \in SeqRange(user.workspaces) THEN us
             ELSE (us \ {user}) \cup
                  {[user EXCEPT !.workspaces = Append(@, inv.workspaceId)]}
    ELSE us

\* POST /api/invitations/accept/:token with req.body.userId (NoUser when absent)
AcceptInvitation(token, userId, fail) ==
    /\ invitations' = InvitationsAfterAccept(users, workspaces, invitations, token, userId, now, fail)
    /\ workspaces' = WorkspacesAfterAccept(users, workspaces, invitations, token, userId, now, fail)
    /\ users' = UsersAfterAccept(users, workspaces, invitations, token, userId, now, fail)
    /\ last' = [op |-> "acceptInvitation", token |-> token, userId |-> userId, fail |-> fail,
                res |-> AcceptInvitationResult(users, workspaces, invitations, token, userId, now, fail)]
    /\ UNCHANGED <<now, mockDb, otps, consumed, failedVerifies, tempUsers, nextId, reqs, timeLogs>>

\* declineInvitation: the answer of the request
DeclineInvitationResult(invs, token, t) ==
    IF FindByToken(invs, token, t) = {} THEN "InvalidOrExpired"
    ELSE DeclineResult(CHOOSE i \in FindByToken(invs, token, t) : TRUE)

\* declineInvitation: the TeamInvitation collection afterwards
InvitationsAfterDecline(invs, token, t) ==
    IF FindByToken(invs, token, t) = {} THEN invs
    ELSE LET inv == CHOOSE i \in FindByToken(invs, token, t) : TRUE
         IN  (invs \ {inv}) \cup {DeclinedInvitation(inv)}

\* POST /api/invitations/decline/:token, sent by the account `by` (NoUser: by
\* nobody signed in); the handler reads the token only
DeclineInvitation(token, by) ==
    /\ invitations' = InvitationsAfterDecline(invitations, token, now)
    /\ last' = [op |-> "declineInvitation", token |-> token, by |-> by,
                res |-> DeclineInvitationResult(invitations, token, now)]
    /\ UNCHANGED <<now, mockDb, otps, consumed, failedVerifies, tempUsers, users, workspaces, nextId, reqs, timeLogs>>

\* the requests of the invitation routes, served within one clock tick
\* (expiry is exercised on the model's own methods under InvSpec)
CtlNext ==
    \/ \E u \in Requesters, e \in SendEmails, w \in SendWorkspaces, r \in Roles, d \in BOOLEAN :
          SendInvitation(u, e, w, r, d)
    \/ \E k \in 1..MaxIds, u \in Accepters, f \in AcceptFails : AcceptInvitation(k, u, f)
    \/ \E k \in 1..MaxIds, u \in Decliners : DeclineInvitation(k, u)

CtlSpec == CtlInit /\ [][CtlNext]_vars

-----------------------------------------------------------------------------
(* Properties of the invitation controller, checked under CtlSpec *)

\* C15: after an accept-invitation request, an invitation is accepted only
\* if its acceptedBy account is in the member list of its workspace; and when
\* the membership grant failed (the workspace or the user could not be saved)
\* the invitation of the request's token is pending.
C15_AcceptanceWithMembership ==
    [][last'.op = "acceptInvitation" =>
         /\ \A inv \in invitations' : inv.status = "accepted" =>
                \E w \in WorkspacesById(workspaces', inv.workspaceId) :
                    MembershipsOf(w, inv.acceptedBy) # {}
         /\ last'.res \in {"TypeError", "ValidationError", "StoreError"} =>
                \A inv \in InvitationsByToken(invitations', last'.token) :
                    inv.status = "pending"
      ]_vars

\* C16: an accept-invitation request for a pending, unexpired invitation,
\* acting for a verified account whose address matches the invitation's, with
\* no store write failing, succeeds whatever role the invitation carries, and
\* afterwards the workspace's members hold that account with the invitation's
\* role and the account's workspaces hold the workspace.
C16_AcceptGrantsRole ==
    [][(last'.op = "acceptInvitation" /\ last'.fail = "none") =>
         \A inv \in FindByToken(invitations, last'.token, now) :
             \A u \in AcceptUsers(users, inv, last'.userId) :
                 (u.emailVerified /\ Lower(u.email) = Lower(inv.email)) =>
                     /\ last'.res = "ok"
                     /\ \E w \in WorkspacesById(workspaces', inv.workspaceId) :
                            [user |-> u.id, role |-> inv.role] \in SeqRange(w.members)
                     /\ \E v \in UsersById(users', u.id) :
                            inv.workspaceId \in SeqRange(v.workspaces)
      ]_vars

\* C17: an accept-invitation or decline-invitation request moves an
\* invitation out of pending only when the party it acts for (the accepting
\* account, the sender of the decline) is an account whose address equals the
\* invitation's, compared case-insensitively.
C17_OnlyInviteeResolves ==
    [][last'.op \in {"acceptInvitation", "declineInvitation"} =>
         \A inv \in invitations : inv.status = "pending" =>
             \A i \in InvitationsByToken(invitations', inv.token) :
                 i.status # "pending" =>
                     LET party == IF last'.op = "acceptInvitation"
                                  THEN i.acceptedBy ELSE last'.by
                     IN  \E u \in UsersById(users, party) :
                             Lower(u.email) = Lower(inv.email)
      ]_vars

\* C18: an invitation for a workspace is stored only by a send-invitation
\* request of an account that is a member of the workspace with role admin or
\* manager; a request of any other account for an existing workspace is
\* answered with one of the two 403 errors and stores nothing.
C18_OnlyInvitersCreate ==
    [][/\ \A n \in invitations' :
             InvitationsByToken(invitations, n.token) = {} =>
                 /\ last'.op = "sendInvitation"
                 /\ n.workspaceId = last'.ws
                 /\ n.invitedBy = last'.by
                 /\ \E w \in WorkspacesById(workspaces, n.workspaceId) :
                        \E m \in MembershipsOf(w, last'.by) : m.role \in InviterRoles
       /\ last'.op = "sendInvitation" =>
             \A w \in WorkspacesById(workspaces, last'.ws) :
                 (\A m \in MembershipsOf(w, last'.by) : m.role \notin InviterRoles) =>
                     /\ last'.res \in {"NotMember", "NoPermission"}
                     /\ invitations' = invitations
      ]_vars

\* C18 witness: a member with role member was refused
C18_Witness ==
    /\ last.op = "sendInvitation"
    /\ last.res = "NoPermission"
    /\ \E w \in WorkspacesById(workspaces, last.ws) :
           \E m \in MembershipsOf(w, last.by) : m.role = "member"

\* C19: a send-invitation request whose email was not delivered leaves the
\* TeamInvitation collection as it found it: the invitation it created under
\* the next token is not stored, no pending invitation of the pair is, and
\* createInvitation for the pair would not answer with the conflict error.
C19_UndeliveredDeleted ==
    [][(last'.op = "sendInvitation" /\ last'.res = "EmailFailed") =>
         /\ nextId' = nextId + 1
         /\ InvitationsByToken(invitations', nextId) = {}
         /\ invitations' = invitations
         /\ PendingFor(invitations', last'.email, last'.ws, now') = {}
         /\ CreateInvitationResult(invitations', Lower(last'.email), last'.ws, now') = "ok"
      ]_vars

\* C19 witness: a send that succeeded for the pair after an earlier
\* invitation was created and deleted again
C19_Witness ==
    /\ last.op = "sendInvitation"
    /\ last.res = "ok"
    /\ \E k \in 1..(nextId - 1) : InvitationsByToken(invitations, k) = {}
    /\ PendingFor(invitations, last.email, last.ws, now) # {}

-----------------------------------------------------------------------------
(* Workspace member routes (add member / remove member) over the same store *)

WsRequesters == {OwnerId, MemberId, InviteeId}   \* req.user of the member routes
WsWorkspaces == {SharedWs, MemberWs}             \* req.params.id
WsTargets == {OwnerId, MemberId, InviteeId}      \* req.params.userId
AddEmails == {"A@x.com", "member@x.com"}         \* req.body.email before normalizeEmail

\* workspace.owner.equals(req.user._id)
IsOwner(w, userId) == w.owner = userId

\* workspace.members.some(member => member.user.equals(req.user._id) && member.role === 'admin')
IsAdmin(w, userId) == \E m \in MembershipsOf(w, userId) : m.role = "admin"

\* workspace.members.filter(member => member.user.toString() !== userId)
WithoutMember(members, userId) == SelectSeq(members, LAMBDA m : m.user # userId)

\* $pull: { workspaces: workspaceId }
WithoutWorkspace(wss, wsId) == SelectSeq(wss, LAMBDA x : x # wsId)

\* POST /:id/members: the answer of the request
AddMemberResult(us, wss, userId, wsId, email) ==
    IF WorkspacesById(wss, wsId) = {} THEN "WorkspaceNotFound"
    ELSE LET w == CHOOSE x \in WorkspacesById(wss, wsId) : TRUE
         IN  IF ~IsOwner(w, userId) /\ ~IsAdmin(w, userId) THEN "AccessDenied"
             ELSE IF UsersFor(us, Lower(email)) = {} THEN "UserNotFound"
             ELSE IF \E u \in UsersFor(us, Lower(email)) : MembershipsOf(w, u.id) # {}
             THEN "AlreadyMember"
             ELSE "ok"

AddFails == {"none", "workspaceSave"}        \* the store write of add member that throws
RemoveFails == {"none", "userUpdate"}        \* the store write of remove member that throws
CreateFails == {"none", "userSave"}          \* the store write of create workspace that throws
MaxListed == 3                               \* longest workspaces list of a user that is explored
RoleChecks == BOOLEAN                                   \* whether roleCheck(['admin']) lets the request through

\* POST /: Workspace.create, then req.user.workspaces.push and req.user.save
CreateWorkspace(userId, fail) ==
    /\ nextId <= MaxIds
    /\ UsersById(users, userId) # {}
    /\ workspaces' = IF fail = "workspaceCreate" THEN workspaces
                     ELSE workspaces \cup
                          {[id |-> nextId, owner |-> userId,
                            members |-> <<[user |-> userId, role |-> "admin"]>>]}
    /\ users' = IF fail = "none"
                THEN {IF u.id = userId THEN [u EXCEPT !.workspaces = Append(@, nextId)] ELSE u :
                        u \in users}
                ELSE users
    /\ nextId' = IF fail = "workspaceCreate" THEN nextId ELSE nextId + 1
    /\ last' = [op |-> "createWorkspace", by |-> userId,
                res |-> IF fail = "none" THEN "ok" ELSE "StoreError"]
    /\ UNCHANGED <<now, mockDb, otps, consumed, failedVerifies, tempUsers, invitations, reqs, timeLogs>>

\* DELETE /:id: the answer of the request
DeleteWorkspaceResult(wss, userId, wsId, allowed) ==
    IF ~allowed THEN "Forbidden"
    ELSE IF WorkspacesById(wss, wsId) = {} THEN "WorkspaceNotFound"
    ELSE IF \E w \in WorkspacesById(wss, wsId) : w.owner # userId THEN "OnlyOwner"
    ELSE "ok"

\* DELETE /:id: Workspace.findByIdAndDelete and nothing else
DeleteWorkspace(userId, wsId, allowed) ==
    LET res == DeleteWorkspaceResult(workspaces, userId, wsId, allowed)
    IN  /\ workspaces' = IF res = "ok" THEN workspaces \ WorkspacesById(workspaces, wsId)
                         ELSE workspaces
        /\ last' = [op |-> "deleteWorkspace", by |-> userId, ws |-> wsId, res |-> res]
        /\ UNCHANGED <<now, mockDb, otps, consumed, failedVerifies, tempUsers, users, invitations,
                       nextId, reqs, timeLogs>>

\* POST /:id/members: userToAdd.save(), then workspace.save()
AddMember(userId, wsId, email, role, fail) ==
    LET pre == AddMemberResult(users, workspaces, userId, wsId, email)
        res == IF pre = "ok" /\ fail # "none" THEN "StoreError" ELSE pre
    IN  /\ \A u \in UsersFor(users, Lower(email)) : Len(u.workspaces) < MaxListed
        /\ users' = IF pre = "ok" /\ fail \in {"none", "workspaceSave"}
                    THEN LET u == CHOOSE x \in UsersFor(users, Lower(email)) : TRUE
                         IN  (users \ {u}) \cup {[u EXCEPT !.workspaces = Append(@, wsId)]}
                    ELSE users
        /\ workspaces' = IF res = "ok"
                         THEN LET w == CHOOSE x \in WorkspacesById(workspaces, wsId) : TRUE
                                  u == CHOOSE x \in UsersFor(users, Lower(email)) : TRUE
                              IN  (workspaces \ {w}) \cup
                                  {[w EXCEPT !.members = Append(@, [user |-> u.id, role |-> role])]}
                         ELSE workspaces
        /\ last' = [op |-> "addMember", by |-> userId, ws |-> wsId, email |-> email, res |-> res]
        /\ UNCHANGED <<now, mockDb, otps, consumed, failedVerifies, tempUsers, invitations, nextId, reqs, timeLogs>>

\* DELETE /:id/members/:userId without the owner check
RemoveMemberResultNoOwnerCheck(wss, userId, wsId, target) ==
    IF WorkspacesById(wss, wsId) = {} THEN "WorkspaceNotFound"
    ELSE LET w == CHOOSE x \in WorkspacesById(wss, wsId) : TRUE
         IN  IF ~IsOwner(w, userId) /\ ~IsAdmin(w, userId) /\ target # userId
             THEN "AccessDenied"
             ELSE "ok"

\* DELETE /:id/members/:userId: the answer of the request
RemoveMemberResult(wss, userId, wsId, target) ==
    IF WorkspacesById(wss, wsId) = {} THEN "WorkspaceNotFound"
    ELSE LET w == CHOOSE x \in WorkspacesById(wss, wsId) : TRUE
         IN  IF ~IsOwner(w, userId) /\ ~IsAdmin(w, userId) /\ target # userId
             THEN "AccessDenied"
             ELSE IF w.owner = target THEN "CannotRemoveOwner"
             ELSE "ok"

\* DELETE /:id/members/:userId: workspace.save(), then User.findByIdAndUpdate
RemoveMember(userId, wsId, target, fail) ==
    LET pre == RemoveMemberResult(workspaces, userId, wsId, target)
        res == IF pre = "ok" /\ fail # "none" THEN "StoreError" ELSE pre
    IN  /\ workspaces' = IF pre = "ok" /\ fail \in {"none", "userUpdate"}
                         THEN LET w == CHOOSE x \in WorkspacesById(workspaces, wsId) : TRUE
                              IN  (workspaces \ {w}) \cup
                                  {[w EXCEPT !.members = WithoutMember(@, target)]}
                         ELSE workspaces
        /\ users' = IF res = "ok"
                    THEN {IF u.id = target
                          THEN [u EXCEPT !.workspaces = WithoutWorkspace(@, wsId)]
                          ELSE u : u \in users}
                    ELSE users
        /\ last' = [op |-> "removeMember", by |-> userId, ws |-> wsId, target |-> target,
                    res |-> res]
        /\ UNCHANGED <<now, mockDb, otps, consumed, failedVerifies, tempUsers, invitations, nextId, reqs, timeLogs>>

WsNext ==
    \/ \E u \in WsRequesters, w \in WsWorkspaces, e \in AddEmails, r \in WorkspaceRoles,
          f \in AddFails : AddMember(u, w, e, r, f)
    \/ \E u \in WsRequesters, w \in WsWorkspaces, t \in WsTargets, f \in RemoveFails :
          RemoveMember(u, w, t, f)

WsSpec == CtlInit /\ [][WsNext]_vars

-----------------------------------------------------------------------------
(* Properties of the member routes, checked under WsSpec *)

\* C20 as stated: a remove-member request whose target is the owner of the
\* workspace is answered with the cannot-remove-owner error, whoever sends
\* it, and changes neither the workspaces nor the users.
C20_OwnerRemovalCannotRemoveOwner ==
    [][last'.op = "removeMember" =>
         \A w \in WorkspacesById(workspaces, last'.ws) :
             w.owner = last'.target =>
                 /\ last'.res = "CannotRemoveOwner"
                 /\ workspaces' = workspaces
                 /\ users' = users
      ]_vars

\* C20: a remove-member request whose target is the owner of the workspace
\* always fails and changes neither the workspaces nor the users: with the
\* cannot-remove-owner error when the requester is the owner or a member with
\* role admin, with the access-denied error otherwise.
C20_OwnerRemovalFails ==
    [][last'.op = "removeMember" =>
         \A w \in WorkspacesById(workspaces, last'.ws) :
             w.owner = last'.target =>
                 /\ workspaces' = workspaces
                 /\ users' = users
                 /\ last'.res = IF IsOwner(w, last'.by) \/ IsAdmin(w, last'.by)
                                THEN "CannotRemoveOwner" ELSE "AccessDenied"
      ]_vars

\* C20 witness: a member with role admin, not the owner, asked to remove the
\* owner and was refused
C20_Witness ==
    /\ last.op = "removeMember"
    /\ last.res = "CannotRemoveOwner"
    /\ \E w \in WorkspacesById(workspaces, last.ws) :
           /\ w.owner = last.target
           /\ last.by # w.owner
           /\ IsAdmin(w, last.by)

\* whether user u holds a member entry of w exactly when w is on u's list
InSync(u, w) ==
    (MembershipsOf(w, u.id) # {}) <=> (\E i \in 1..Len(u.workspaces) : u.workspaces[i] = w.id)

\* C21: after every add-member or remove-member request, failed part-way
\* or not, every user is on a workspace's member list exactly when the
\* workspace is on the user's list; an add-member request for a user who is
\* already a member is answered with the already-member error and changes
\* nothing.
C21_MembershipInSync ==
    [][last'.op \in {"addMember", "removeMember"} =>
         /\ \A u \in users', w \in workspaces' : InSync(u, w)
         /\ (last'.op = "addMember" /\ last'.res = "AlreadyMember") =>
                (users' = users /\ workspaces' = workspaces)
      ]_vars

-----------------------------------------------------------------------------
(* Joining a workspace both ways: by invitation and by add member *)

JoinNext ==
    \/ \E e \in SendEmails, r \in InvRoles, d \in BOOLEAN :
          SendInvitation(OwnerId, e, SharedWs, r, d)
    \/ \E e \in AddEmails, r \in InvRoles : AddMember(OwnerId, SharedWs, e, r, "none")
    \/ \E k \in 1..MaxIds, u \in Accepters : AcceptInvitation(k, u, "none")

JoinSpec == CtlInit /\ [][JoinNext]_vars

\* C28: no workspace holds two member entries for the same user.
C28_NoDuplicateMember ==
    \A w \in workspaces : \A i, j \in 1..Len(w.members) :
        w.members[i].user = w.members[j].user => i = j

-----------------------------------------------------------------------------
(* Creating and deleting workspaces *)

LifeNext ==
    \/ \E u \in WsRequesters, f \in CreateFails : CreateWorkspace(u, f)
    \/ \E u \in WsRequesters, w \in WsWorkspaces, a \in RoleChecks : DeleteWorkspace(u, w, a)

LifeSpec == CtlInit /\ [][LifeNext]_vars

\* C29: every workspace id on the workspaces list of a user is the id of a
\* stored workspace.
C29_NoDanglingWorkspace ==
    \A u \in users : \A i \in 1..Len(u.workspaces) :
        WorkspacesById(workspaces, u.workspaces[i]) # {}

-----------------------------------------------------------------------------
(* Send-invitation requests served concurrently: every await of the handler *)
(* that touches the TeamInvitation collection is a step of its own          *)

\* sendInvitation up to and including createInvitation's findOne for a
\* pending invitation of the pair; the reads before it are of collections
\* no step of this specification writes
SendCheck(r, userId, email, ws, role) ==
    LET res == SendInvitationResult(users, workspaces, invitations, userId, email, ws, now, TRUE)
    IN  /\ reqs[r].pc = "idle"
        /\ UsersById(users, userId) # {}
        /\ reqs' = IF res = "ok"
                   THEN [reqs EXCEPT ![r] = [pc |-> "checked", by |-> userId,
                                             email |-> Lower(email), ws |-> ws, role |-> role]]
                   ELSE reqs
        /\ last' = [op |-> "sendCheck", req |-> r, res |-> res]
        /\ UNCHANGED <<now, mockDb, otps, consumed, failedVerifies, tempUsers, users, workspaces,
                       invitations, nextId, timeLogs>>

\* createInvitation: generateToken, new this({...}), await invitation.save()
SendSave(r) ==
    /\ reqs[r].pc = "checked"
    /\ nextId <= MaxIds
    /\ invitations' = invitations \cup
                      {NewInvitation(reqs[r].email, reqs[r].ws, reqs[r].by, reqs[r].role, nextId, now)}
    /\ nextId' = nextId + 1
    /\ reqs' = [reqs EXCEPT ![r] = [pc |-> "saved", token |-> nextId]]
    /\ last' = [op |-> "sendSave", req |-> r, res |-> "ok"]
    /\ UNCHANGED <<now, mockDb, otps, consumed, failedVerifies, tempUsers, users, workspaces, timeLogs>>

\* sendInvitation: await sendTeamInvitationEmail, and findByIdAndDelete when
\* it was not delivered; the request ends
SendDeliver(r, delivered) ==
    /\ reqs[r].pc = "saved"
    /\ invitations' = IF delivered THEN invitations
                      ELSE {i \in invitations : i.token # reqs[r].token}
    /\ reqs' = [reqs EXCEPT ![r] = IdleReq]
    /\ last' = [op |-> "sendDeliver", req |-> r,
                res |-> IF delivered THEN "ok" ELSE "EmailFailed"]
    /\ UNCHANGED <<now, mockDb, otps, consumed, failedVerifies, tempUsers, users, workspaces, nextId, timeLogs>>

RaceNext ==
    \/ \E r \in Requests, u \in Requesters, e \in SendEmails, w \in SendWorkspaces, role \in InvRoles :
          SendCheck(r, u, e, w, role)
    \/ \E r \in Requests : SendSave(r)
    \/ \E r \in Requests, d \in BOOLEAN : SendDeliver(r, d)

RaceSpec == CtlInit /\ [][RaceNext]_vars

-----------------------------------------------------------------------------
(* Property of concurrent send-invitation requests, checked under RaceSpec *)

\* C11: in every state, for every (email, workspace) pair at most one stored
\* invitation is pending with an expiresAt after now, however the existence
\* checks and the inserts of send-invitation requests interleave.
C11_OnePendingPerPair ==
    \A i, j \in invitations :
        (/\ i.email = j.email /\ i.workspaceId = j.workspaceId
         /\ i.status = "pending" /\ j.status = "pending"
         /\ i.expiresAt > now /\ j.expiresAt > now) => i = j

-----------------------------------------------------------------------------
(* Further properties of the OTP model, checked under OtpSpec *)

\* C26: in every state the attempts counter of every stored OTP is between
\* 0 and 5, whatever createOTP, verifyOTP and incrementAttempts calls ran.
C26_AttemptsWithinFive ==
    \A o \in otps : o.attempts >= 0 /\ o.attempts <= MaxAttempts

-----------------------------------------------------------------------------
(* createOTP calls served concurrently: its two awaits are steps of their own *)

\* createOTP: await this.deleteMany({ email, purpose })
IssueDelete(r, email, purpose) ==
    /\ reqs[r].pc = "idle"
    /\ otps' = otps \ OtpsFor(otps, email, purpose)
    /\ consumed' = ConsumedAfterCreate(consumed, email, purpose)
    /\ reqs' = [reqs EXCEPT ![r] = [pc |-> "deleted", email |-> email, purpose |-> purpose]]
    /\ last' = [op |-> "issueDelete", req |-> r]
    /\ UNCHANGED <<now, mockDb, failedVerifies, tempUsers, users, workspaces, invitations, nextId, timeLogs>>

\* createOTP: generateOTP, new this({...}), await otpDoc.save(); the call returns
IssueSave(r, code) ==
    /\ reqs[r].pc = "deleted"
    /\ otps' = otps \cup {[email |-> Lower(reqs[r].email), otp |-> code,
                           purpose |-> reqs[r].purpose, attempts |-> 0, isUsed |-> FALSE,
                           expiresAt |-> now + OtpExpiryTicks]}
    /\ reqs' = [reqs EXCEPT ![r] = IdleReq]
    /\ last' = [op |-> "issueSave", req |-> r]
    /\ UNCHANGED <<now, mockDb, consumed, failedVerifies, tempUsers, users, workspaces, invitations, nextId, timeLogs>>

OtpRaceNext ==
    \/ Tick
    \/ \E r \in Requests, e \in OtpEmails, p \in Purposes : IssueDelete(r, e, p)
    \/ \E r \in Requests, c \in Codes : IssueSave(r, c)

OtpRaceSpec == Init /\ [][OtpRaceNext]_vars

\* C22: once no createOTP call is in progress, at most one OTP is stored for
\* every (email, purpose), however the deleteMany and save steps of two
\* calls for the pair interleaved.
C22_OneSurvivor ==
    (\A r \in Requests : reqs[r].pc = "idle") =>
        \A o1, o2 \in otps :
            (o1.email = o2.email /\ o1.purpose = o2.purpose) => o1 = o2

-----------------------------------------------------------------------------
(* The periodic sweep (cleanupExpiredData, run at startup and every hour) *)

SweepEmails == {"A@x.com"}     \* the address the sweep model is driven with
SweepCodes == {"111111"}       \* the code issued to it

\* TemporaryUser.find({ expiresAt: { $lt: now } }).map(user => user.email)
ExpiredEmails(tus, t) == {u.email : u \in {x \in tus : x.expiresAt < t}}

\* cleanupExpiredData: the TemporaryUser collection afterwards
TempUsersAfterCleanup(tus, t) == {u \in tus : ~(u.expiresAt < t)}

\* cleanupExpiredData: the OTP collection afterwards (the verification codes
\* of the expired temporary users, then every OTP with expiresAt before now)
OtpsAfterCleanup(os, tus, t) ==
    {o \in os : /\ ~(o.email \in ExpiredEmails(tus, t) /\ o.purpose = EV)
                /\ ~(o.expiresAt < t)}

\* cleanupExpiredData(), one run of the scheduler
CleanupExpiredData ==
    /\ tempUsers' = TempUsersAfterCleanup(tempUsers, now)
    /\ otps' = OtpsAfterCleanup(otps, tempUsers, now)
    /\ last' = [op |-> "cleanupExpiredData"]
    /\ UNCHANGED <<now, mockDb, consumed, failedVerifies, users, workspaces, invitations, nextId, reqs, timeLogs>>

SweepNext ==
    \/ Tick
    \/ \E e \in SweepEmails, p \in Passwords : CreateTemporaryUser(e, p)
    \/ \E e \in SweepEmails, p \in Purposes, c \in SweepCodes : CreateOTP(e, p, c)
    \/ \E e \in SweepEmails, w \in InvWorkspaces, u \in InvUsers, r \in InvRoles :
          CreateInvitation(e, w, u, r)
    \/ CleanupExpiredData

SweepSpec == Init /\ [][SweepNext]_vars

\* C23: right after a run of the sweep no temporary user and no OTP with an
\* expiresAt before now is stored, and no invitation with an expiresAt before
\* now is still pending.
C23_SweepLeavesNothingOverdue ==
    [][last'.op = "cleanupExpiredData" =>
         /\ \A u \in tempUsers' : ~(u.expiresAt < now')
         /\ \A o \in otps' : ~(o.expiresAt < now')
         /\ \A i \in invitations' : ~(i.status = "pending" /\ i.expiresAt < now')
      ]_vars

-----------------------------------------------------------------------------
(* Properties of login and of repeated registration, checked under Spec *)

\* C24: login answers with a token only for an account whose email is
\* verified; for a stored account that is not verified it answers with the
\* please-verify error whatever the password, and for an address no account
\* is stored under with the invalid-email-or-password error; it writes nothing.
C24_LoginOnlyVerified ==
    [][last'.op = "login" =>
         /\ last'.res = "ok" =>
                \E u \in UsersFor(users, last'.email) :
                    u.emailVerified /\ MatchPassword(u.password, last'.password)
         /\ (\E u \in UsersFor(users, last'.email) : ~u.emailVerified) =>
                last'.res = "PleaseVerifyEmail"
         /\ UsersFor(users, last'.email) = {} => last'.res = "InvalidEmailOrPassword"
         /\ users' = users
      ]_vars

\* C24 witness: a login with the right password refused because the account
\* is not verified
C24_Witness ==
    /\ last.op = "login"
    /\ last.res = "PleaseVerifyEmail"
    /\ \E u \in UsersFor(users, last.email) :
           ~u.emailVerified /\ MatchPassword(u.password, last.password)

\* C25: a register request for an address an account is already stored
\* under, verified or not, is refused (with the user-already-exists error
\* when the request is well-formed) and leaves the accounts as they were.
C25_DuplicateRegistrationRefused ==
    [][(last'.op = "register" /\ UsersFor(users, last'.email) # {}) =>
         /\ last'.res \in {"UserExists", "PasswordTooShort"}
         /\ users' = users
      ]_vars

-----------------------------------------------------------------------------
(* Time tracking: start-timer requests served concurrently, every await of  *)
(* the handler that touches the TimeLog collection a step of its own         *)

TimerUsers == {OwnerId, MemberId}                      \* req.user of the time routes
TaskLookups == {"ok", "TaskNotFound", "AccessDenied"}  \* outcome of Task.findById and the access check

\* TimeLog.findRunningTimer(userId): the running time logs of the user
FindRunningTimer(logs, userId) == {l \in logs : l.user = userId /\ l.isRunning}

\* timeLog.stopTimer(): the log is no longer running
StoppedTimer(l) == [l EXCEPT !.isRunning = FALSE]

\* POST /start up to TimeLog.create: the running-timer check, then the task
\* lookup and the access check, which read collections no step here writes
StartCheck(r, userId, lookup) ==
    LET res == IF FindRunningTimer(timeLogs, userId) # {} THEN "AlreadyRunning" ELSE lookup
    IN  /\ reqs[r].pc = "idle"
        /\ reqs' = IF res = "ok" THEN [reqs EXCEPT ![r] = [pc |-> "create", user |-> userId]]
                   ELSE reqs
        /\ last' = [op |-> "startCheck", by |-> userId, res |-> res]
        /\ UNCHANGED <<now, mockDb, otps, consumed, failedVerifies, tempUsers, users, workspaces,
                       invitations, nextId, timeLogs>>

\* POST /start: TimeLog.create and the answer
StartCreate(r) ==
    /\ reqs[r].pc = "create"
    /\ nextId <= MaxIds
    /\ timeLogs' = timeLogs \cup {[id |-> nextId, user |-> reqs[r].user, isRunning |-> TRUE]}
    /\ nextId' = nextId + 1
    /\ reqs' = [reqs EXCEPT ![r] = IdleReq]
    /\ last' = [op |-> "startTimer", by |-> reqs[r].user, res |-> "ok"]
    /\ UNCHANGED <<now, mockDb, otps, consumed, failedVerifies, tempUsers, users, workspaces,
                   invitations>>

\* POST /stop
StopTimer(userId) ==
    /\ IF FindRunningTimer(timeLogs, userId) = {}
       THEN /\ timeLogs' = timeLogs
            /\ last' = [op |-> "stopTimer", by |-> userId, res |-> "NoRunningTimer"]
       ELSE \E l \in FindRunningTimer(timeLogs, userId) :
                /\ timeLogs' = (timeLogs \ {l}) \cup {StoppedTimer(l)}
                /\ last' = [op |-> "stopTimer", by |-> userId, res |-> "ok"]
    /\ UNCHANGED <<now, mockDb, otps, consumed, failedVerifies, tempUsers, users, workspaces,
                   invitations, nextId, reqs>>

TimerNext ==
    \/ \E r \in Requests, u \in TimerUsers, t \in TaskLookups : StartCheck(r, u, t)
    \/ \E r \in Requests : StartCreate(r)
    \/ \E u \in TimerUsers : StopTimer(u)

TimerSpec == CtlInit /\ [][TimerNext]_vars

-----------------------------------------------------------------------------
(* The MockDatabase singleton and the calls the mock routes make on it *)

MockNames == {"new"}                   \* the data of a create call; the routes pass no _id

\* mockDb.createUser / createWorkspace / createSpace / createTask
CreateCall(coll, name) ==
    /\ mockDb.counters[coll] <= MaxMockId
    /\ mockDb' = create(mockDb, coll, [name |-> name])
    /\ last' = [op |-> "create", coll |-> coll, id |-> generateId(mockDb, coll)]
    /\ UNCHANGED <<now, otps, consumed, failedVerifies, tempUsers, users, workspaces,
                   invitations, nextId, reqs, timeLogs>>

\* mockDb.deleteWorkspace / deleteSpace / deleteTask: Map.prototype.delete(id)
DeleteCall(coll, n) ==
    /\ mockDb' = [mockDb EXCEPT !.maps[coll] = {e \in @ : e[1] # <<coll, n>>}]
    /\ last' = [op |-> "delete", coll |-> coll, id |-> <<coll, n>>]
    /\ UNCHANGED <<now, otps, consumed, failedVerifies, tempUsers, users, workspaces,
                   invitations, nextId, reqs, timeLogs>>

MockNext ==
    \/ \E c \in Collections, n \in MockNames : CreateCall(c, n)
    \/ \E c \in Collections \ {"users"}, n \in 1..MaxMockId : DeleteCall(c, n)

MockSpec == Init /\ [][MockNext]_vars

\* C30: every record of the users, workspaces, spaces and tasks maps is
\* stored under its own _id, so that looking its _id up returns the record.
C30_StoredUnderOwnId ==
    \A c \in Collections : \A e \in mockDb.maps[c] : findById(mockDb, c, e[2]._id) = {e[2]}

====
